---- MODULE Spec2Model ----
(***************************************************************************)
(* Model of fc-view-runner: the DuckDB handler (connection pool,           *)
(* tableExists, createTable, upsertData with its p-limit limiter) and the  *)
(* NDJSON stream processor.  One action per code segment between two       *)
(* suspension points (await) of the cooperative runtime.                   *)
(***************************************************************************)
EXTENDS Integers, Sequences, FiniteSets, TLC

(* ------------------------------ bounds -------------------------------- *)
MaxRows == 3
MaxPoolSize == 2
MaxConcurrency == 2
BatchSize == 2
MaxCalls == 3
MaxExt == 1
MaxLines == 3
MaxFairLines == 2

(* ------------------------------ values -------------------------------- *)
\* A row whose resource-key property is absent (falsy under !row[resourceKey]).
NoKey == 0
\* The rows a batch may hold: one row per resource key, and a keyless row.
Rows == {[key |-> 1, value |-> "a"], [key |-> 2, value |-> "b"],
         [key |-> NoKey, value |-> "c"]}
StoredRows == {r \in Rows : r.key # NoKey}
Batches == UNION {[1..n -> Rows] : n \in 0..MaxRows}

(* ----------------------- NDJSON lines and views ----------------------- *)
\* JavaScript null, as a cell of a row
Null == "null"
\* A JSON object is a node: field -> the collection the path evaluator returns for
\* it (the empty collection for an absent field).  The boolean true is "true".
Node(resourceType, id, gender, active, address) ==
    [resourceType |-> resourceType, id |-> id, gender |-> gender,
     active |-> active, address |-> address]
EmptyNode == Node(<<>>, <<>>, <<>>, <<>>, <<>>)
Address(city) == [city |-> city]
Resources ==
    { Node(<<"Patient">>, <<"p1">>, <<"male">>, <<"true">>,
           <<Address(<<"Oslo">>), Address(<<>>), Address(<<"Rome">>)>>),
      Node(<<"Patient">>, <<"p2">>, <<"female">>, <<"false">>, <<>>),
      Node(<<"Patient">>, <<>>, <<>>, <<"true">>, <<>>),
      Node(<<"Observation">>, <<"o1">>, <<>>, <<>>, <<>>) }
\* The lines of a file: text that is not JSON, a JSON scalar, the JSON null, a JSON
\* array, and one JSON object per resource.
Lines ==
    {[kind |-> k, node |-> EmptyNode] : k \in {"text", "scalar", "null", "array"}}
        \cup {[kind |-> "object", node |-> r] : r \in Resources}
Files == UNION {[1..n -> Lines] : n \in 0..MaxLines}
\* the files followed to their resolution under fair scheduling
ShortFiles == UNION {[1..n -> Lines] : n \in 0..MaxFairLines}

Column(path, name) == [path |-> path, name |-> name, collection |-> FALSE]
BaseColumns == <<Column("getResourceKey()", "patient_id"), Column("gender", "gender")>>
\* The options processNdjson is called with: a view of columns only, and a view with
\* a where clause, a plain select and a forEach select.
Views ==
    { [resource |-> "Patient", columns |-> BaseColumns,
       hasWhere |-> FALSE, whereClauses |-> <<>>, select |-> <<>>],
      [resource |-> "Patient", columns |-> BaseColumns,
       hasWhere |-> TRUE, whereClauses |-> <<[path |-> "active"]>>,
       select |-> <<[forEach |-> "", column |-> BaseColumns],
                    [forEach |-> "address", column |-> <<Column("city", "city")>>]>>] }

(* ------------------- view definitions and their options --------------- *)
\* A select of a ViewDefinition: forEach / forEachOrNull ("" when absent), its
\* columns (none when absent) and its unionAll branches (none when absent).
\* A select node of a view definition ("" and <<>> stand for an absent key)
SelectNode(forEach, forEachOrNull, column, select, unionAll) ==
    [forEach |-> forEach, forEachOrNull |-> forEachOrNull,
     column |-> column, select |-> select, unionAll |-> unionAll]
Select(forEach, forEachOrNull, column, unionAll) ==
    SelectNode(forEach, forEachOrNull, column, <<>>, unionAll)
CityColumn == <<Column("city", "city")>>
CategoryColumn == <<Column("$this", "category")>>
BaseSelect == Select("", "", BaseColumns, <<>>)
\* two paths written to one column name (validateColumnName looks at each name alone)
SameNameColumns == <<Column("gender", "sex"), Column("sex", "sex")>>
ViewSelects ==
    { <<BaseSelect>>,
      <<Select("", "", SameNameColumns, <<>>)>>,
      <<BaseSelect, Select("address", "", CityColumn, <<>>)>>,
      <<BaseSelect, Select("category", "", CategoryColumn, <<>>)>>,
      <<BaseSelect, Select("address", "", CityColumn, <<>>),
                    Select("category", "", CategoryColumn, <<>>)>>,
      <<BaseSelect, Select("", "address", CityColumn, <<>>)>>,
      <<BaseSelect, Select("", "", <<>>,
                           <<Select("address", "", CityColumn, <<>>),
                             Select("category", "", CategoryColumn, <<>>)>>)>> }
\* where: none, a boolean field, a string field, and a path the evaluator rejects
WhereClauses == {<<>>, <<[path |-> "active"]>>, <<[path |-> "gender"]>>,
                 <<[path |-> "active.bogus("]>>}
ViewDefinitions == [resource : {"Patient"}, where : WhereClauses, select : ViewSelects]

\* a.concat(b) over a sequence of sequences
RECURSIVE Flatten(_)
Flatten(ss) == IF ss = <<>> THEN <<>> ELSE Head(ss) \o Flatten(Tail(ss))

(* ------------------------------ view parser --------------------------- *)
\* The characters of the column names the view definitions use
Spell ==
    [patient_id |-> <<"p", "a", "t", "i", "e", "n", "t", "_", "i", "d">>,
     gender |-> <<"g", "e", "n", "d", "e", "r">>,
     city |-> <<"c", "i", "t", "y">>,
     category |-> <<"c", "a", "t", "e", "g", "o", "r", "y">>,
     sex |-> <<"s", "e", "x">>,
     Zip2 |-> <<"Z", "i", "p", "2">>,
     first |-> <<"1", "s", "t">>,
     dashed |-> <<"m", "y", "-", "c", "o", "l">>,
     under |-> <<"_", "x">>,
     empty |-> <<>>]
\* The name as written in the view definition
NameOf(key) ==
    CASE key = "first" -> "1st" [] key = "dashed" -> "my-col"
      [] key = "under" -> "_x" [] key = "empty" -> "" [] OTHER -> key
KeyOf(name) == CHOOSE key \in DOMAIN Spell : NameOf(key) = name
Letters ==
    {"a", "b", "c", "d", "e", "f", "g", "h", "i", "j", "k", "l", "m",
     "n", "o", "p", "q", "r", "s", "t", "u", "v", "w", "x", "y", "z",
     "A", "B", "C", "D", "E", "F", "G", "H", "I", "J", "K", "L", "M",
     "N", "O", "P", "Q", "R", "S", "T", "U", "V", "W", "X", "Y", "Z"}
Digits == {"0", "1", "2", "3", "4", "5", "6", "7", "8", "9"}

\* validateColumnName: /^[A-Za-z][A-Za-z0-9_]*$/.test(name)
ValidColumnName(name) ==
    LET cs == Spell[KeyOf(name)] IN
      /\ Len(cs) >= 1 /\ cs[1] \in Letters
      /\ \A i \in 2..Len(cs) : cs[i] \in Letters \cup Digits \cup {"_"}

\* String(index) of an array index (0-based)
IndexString == <<"0", "1", "2", "3">>
\* parentPath ? `${parentPath}.${index}` : String(index), as the list of its parts
CurrentPath(parentPath, index) == parentPath \o <<IndexString[index + 1]>>

\* faulty variant: a column is stamped with the path of the enclosing scope
ParsedColumnParentPath(col, currentPath) ==
    [path |-> col.path, name |-> col.name,
     type |-> IF "type" \in DOMAIN col THEN col.type ELSE "string",
     description |-> "", collection |-> col.collection, tags |-> <<>>,
     selectPath |-> SubSeq(currentPath, 1, Len(currentPath) - 1)]

\* the column pushed for a descriptor: type || 'string', collection || false, ...
ParsedColumn(col, currentPath) ==
    [path |-> col.path, name |-> col.name,
     type |-> IF "type" \in DOMAIN col THEN col.type ELSE "string",
     description |-> "", collection |-> col.collection, tags |-> <<>>,
     selectPath |-> currentPath]

NoSelects == [threw |-> FALSE, name |-> "", columns |-> <<>>, nestedSelects |-> <<>>]
InvalidName(name) == [threw |-> TRUE, name |-> name, columns |-> <<>>, nestedSelects |-> <<>>]

\* extractSelects: the columns and the nested selects of a list of select nodes, or
\* the first column name validateColumnName rejects (in the order of the traversal)
RECURSIVE ExtractSelects(_, _)
ExtractSelects(selects, parentPath) ==
    LET step[i \in 0..Len(selects)] ==
          IF i = 0 THEN NoSelects
          ELSE LET acc == step[i - 1]
                   select == selects[i]
                   currentPath == CurrentPath(parentPath, i - 1)
                   bad == {k \in DOMAIN select.column : ~ValidColumnName(select.column[k].name)}
                   firstBad == CHOOSE k \in bad : \A l \in bad : k <= l
                   own == [k \in DOMAIN select.column |->
                              ParsedColumn(select.column[k], currentPath)]
                   hasNested == select.select # <<>> \/ select.forEach # ""
                                    \/ select.forEachOrNull # ""
                   nested == IF select.select # <<>>
                             THEN ExtractSelects(select.select, currentPath) ELSE NoSelects
                   nestedSelect == [path |-> currentPath, forEach |-> select.forEach,
                                    forEachOrNull |-> select.forEachOrNull,
                                    column |-> select.column, select |-> nested.columns]
                   union == IF select.unionAll # <<>>
                            THEN ExtractSelects(select.unionAll, currentPath \o <<"union">>)
                            ELSE NoSelects
               IN IF acc.threw THEN acc
                  ELSE IF bad # {} THEN InvalidName(select.column[firstBad].name)
                  ELSE IF nested.threw THEN InvalidName(nested.name)
                  ELSE IF union.threw THEN InvalidName(union.name)
                  ELSE [threw |-> FALSE, name |-> "",
                        columns |-> acc.columns \o own \o union.columns,
                        nestedSelects |-> acc.nestedSelects
                            \o (IF hasNested THEN <<nestedSelect>> ELSE <<>>)
                            \o union.nestedSelects]
    IN step[Len(selects)]

\* A descriptor that gives its type and is a collection
TypedColumn(path, name, type) ==
    [path |-> path, name |-> name, type |-> type, collection |-> TRUE]
\* The select trees given to the parser: those of the views above, a nested select
\* (one and two levels deep, and inside a unionAll child), a typed column, and
\* column names the pattern rejects at each place of the tree
ParserSelects ==
    ViewSelects \cup
    { <<SelectNode("address", "", CityColumn,
                   <<Select("category", "", CategoryColumn, <<>>)>>, <<>>)>>,
      <<BaseSelect,
        SelectNode("address", "", CityColumn,
                   <<SelectNode("", "", <<Column("gender", "sex")>>,
                                <<Select("category", "", CategoryColumn, <<>>)>>, <<>>)>>,
                   <<>>)>>,
      <<Select("", "", <<>>,
               <<SelectNode("address", "", CityColumn,
                            <<Select("", "", <<Column("gender", "sex")>>, <<>>)>>, <<>>),
                 BaseSelect>>)>>,
      <<Select("", "", <<TypedColumn("active", "Zip2", "boolean"),
                         Column("gender", "gender")>>, <<>>)>>,
      <<Select("", "", <<Column("gender", "1st")>>, <<>>)>>,
      <<Select("", "", <<Column("gender", "gender"), Column("city", "my-col")>>, <<>>)>>,
      <<Select("", "", <<Column("gender", "")>>, <<>>)>>,
      <<BaseSelect, Select("address", "", <<Column("city", "_x")>>, <<>>)>>,
      <<BaseSelect,
        SelectNode("address", "", CityColumn,
                   <<Select("", "", <<Column("gender", "my-col")>>, <<>>)>>, <<>>)>>,
      <<BaseSelect, Select("", "", <<>>,
                           <<Select("address", "", CityColumn, <<>>),
                             Select("", "", <<Column("gender", "1st")>>, <<>>)>>)>> }
\* viewDefinition.select: absent, a value that is not an array, or an array
SelectValues ==
    {[kind |-> "absent", items |-> <<>>], [kind |-> "string", items |-> <<>>],
     [kind |-> "array", items |-> <<>>]}
        \cup {[kind |-> "array", items |-> t] : t \in ParserSelects}
\* The view definitions given to the parser ("" stands for an absent field)
RawViewDefinitions ==
    [name : {"", "TestView"}, status : {"", "active"}, resource : {"", "Patient"},
     where : {<<>>, <<[path |-> "active"]>>}, select : SelectValues]

\* viewDefinition[field] is falsy ([] and every array are truthy)
Missing(viewDefinition, field) ==
    IF field = "select" THEN viewDefinition.select.kind = "absent"
    ELSE viewDefinition[field] = ""
RequiredFields == <<"name", "status", "resource", "select">>
\* the first of the fields of the set, in the order of the list
FirstField(missing) == RequiredFields[CHOOSE i \in missing : \A j \in missing : i <= j]

\* validateViewDefinition: the error thrown (the first missing field of the list, or
\* select not being an array), or none
ValidateViewDefinition(viewDefinition) ==
    LET missing == {i \in DOMAIN RequiredFields :
                        Missing(viewDefinition, RequiredFields[i])} IN
      IF missing # {}
      THEN [kind |-> "missing", detail |-> FirstField(missing)]
      ELSE IF viewDefinition.select.kind # "array"
           THEN [kind |-> "notArray", detail |-> ""]
           ELSE [kind |-> "none", detail |-> ""]

\* parseViewDefinition: the plan returned, or the error thrown
ParseViewDefinition(viewDefinition) ==
    LET error == ValidateViewDefinition(viewDefinition)
        selects == ExtractSelects(viewDefinition.select.items, <<>>) IN
      IF error.kind # "none" THEN [pc |-> "threw", error |-> error]
      ELSE IF selects.threw
           THEN [pc |-> "threw", error |-> [kind |-> "columnName", detail |-> selects.name]]
           ELSE [pc |-> "returned",
                 plan |-> [metadata |-> [name |-> viewDefinition.name,
                                         status |-> viewDefinition.status,
                                         resource |-> viewDefinition.resource],
                           constants |-> <<>>,
                           columns |-> selects.columns,
                           nestedSelects |-> selects.nestedSelects,
                           whereClauses |->
                               [i \in DOMAIN viewDefinition.where |->
                                   [path |-> viewDefinition.where[i].path,
                                    description |-> ""]],
                           resource |-> viewDefinition.resource,
                           select |-> viewDefinition.select.items]]

\* main: processNdjson is given the columns of the selects without forEach, the
\* where clauses parseViewDefinition extracted (an array, also when empty) and the
\* view's select as written
MainOptions(view) ==
    [resource |-> view.resource,
     columns |-> Flatten([i \in DOMAIN view.select |->
                            IF view.select[i].forEach = ""
                            THEN view.select[i].column ELSE <<>>]),
     hasWhere |-> TRUE, whereClauses |-> view.where, select |-> view.select]
\* the test suites: columns = select.flatMap(s => s.column), whereClauses when given
TestOptions(view) ==
    [resource |-> view.resource,
     columns |-> Flatten([i \in DOMAIN view.select |-> view.select[i].column]),
     hasWhere |-> view.where # <<>>, whereClauses |-> view.where,
     select |-> view.select]
WideOptions ==
    {MainOptions(v) : v \in ViewDefinitions}
        \cup {TestOptions(v) : v \in {w \in ViewDefinitions :
                                        \A i \in DOMAIN w.select : w.select[i].unionAll = <<>>}}

\* Resources with a list of primitives (category) beside the list of addresses
WideNode(resourceType, id, gender, active, address, category) ==
    [resourceType |-> resourceType, id |-> id, gender |-> gender,
     active |-> active, address |-> address, category |-> category]
EmptyWideNode == WideNode(<<>>, <<>>, <<>>, <<>>, <<>>, <<>>)
WideResources ==
    { WideNode(<<"Patient">>, <<"p1">>, <<"male">>, <<"true">>,
               <<Address(<<"Oslo">>), Address(<<>>), Address(<<"Rome">>)>>,
               <<"food", "medication">>),
      WideNode(<<"Patient">>, <<"p2">>, <<"female">>, <<"false">>, <<>>, <<>>),
      WideNode(<<"Patient">>, <<>>, <<>>, <<"true">>, <<>>, <<>>),
      WideNode(<<"Patient">>, <<"p4">>, <<"male">>, <<"true">>, <<>>, <<>>),
      WideNode(<<"Patient">>, <<"p5">>, <<"female">>, <<>>,
               <<Address(<<"Rome">>)>>, <<"food">>),
      WideNode(<<"Patient">>, <<>>, <<>>, <<"true">>, <<Address(<<"Oslo">>)>>, <<>>),
      WideNode(<<"Patient">>, <<"">>, <<"female">>, <<"true">>, <<>>, <<"food">>),
      WideNode(<<"Observation">>, <<"o1">>, <<>>, <<>>, <<>>, <<>>) }
WideLines ==
    {[kind |-> k, node |-> EmptyWideNode] : k \in {"text", "scalar", "null", "array"}}
        \cup {[kind |-> "object", node |-> r] : r \in WideResources}
OneLineFiles == {<<l>> : l \in WideLines}
\* Files of two resources
TwoLineFiles == {<<[kind |-> "object", node |-> a], [kind |-> "object", node |-> b]>> :
                    a \in WideResources, b \in WideResources}

VARIABLES
    cfg,             \* config.js: asyncProcessing, concurrencyLimit, connectionPoolSize, batchSize
    connectionPool,  \* duckdbHandler.js: const connectionPool = [] (a stack of connections)
    tableCreated,    \* the view's table exists in the database
    tableColumns,    \* the columns the table was created with (none while it is absent)
    sequenceCreated, \* the sequence <table>_id_seq exists in the database
    table,           \* stored rows of the table: row -> number of stored copies
    ct,              \* the in-flight tableExists / createTable call
    up,              \* the closure of the current (or last) upsertData call
    tasks,           \* the per-row insert tasks of that call
    limitQueue,      \* p-limit: queued tasks of the upsertData limiter
    activeCount,     \* p-limit: running tasks of the upsertData limiter
    ext,             \* connections checked out by an outside caller of getConnection
    hist,            \* history: call count, the state at the start of the call, the
                     \* failures met in it, and the connections ended calls kept
    nd,              \* the closure of the current processNdjson call, with its limiter
    vp               \* the current (or last) parseViewDefinition call and its outcome

dbVars == <<cfg, connectionPool, tableCreated, tableColumns, sequenceCreated, table,
            ct, up,
            tasks, limitQueue, activeCount, ext, hist>>

vars == <<dbVars, nd, vp>>

(* --------------------------- pure helpers ----------------------------- *)
Min(a, b) == IF a < b THEN a ELSE b

\* faulty variant: the limiter is always made with concurrencyLimit
LimitCapacityAlways == cfg.concurrencyLimit

\* pLimit(config.asyncProcessing ? config.concurrencyLimit : 1)
LimitCapacity == IF cfg.asyncProcessing THEN cfg.concurrencyLimit ELSE 1

\* faulty variant: hands out the top connection and leaves it in the pool
GetConnectionNoPop(pool) ==
    IF Len(pool) = 0
    THEN [ok |-> FALSE, connection |-> 0, pool |-> pool]
    ELSE [ok |-> TRUE, connection |-> pool[Len(pool)], pool |-> pool]

\* getConnection: throws on an empty pool, otherwise Array.pop
GetConnection(pool) ==
    IF Len(pool) = 0
    THEN [ok |-> FALSE, connection |-> 0, pool |-> pool]
    ELSE [ok |-> TRUE, connection |-> pool[Len(pool)],
          pool |-> SubSeq(pool, 1, Len(pool) - 1)]

\* releaseConnection: Array.push
ReleaseConnection(pool, c) == Append(pool, c)

EmptyTable == [r \in Rows |-> 0]

\* INSERT INTO <table> (...) VALUES (...): the surrogate id comes from the sequence,
\* so every stored copy of a row is a row of its own.
InsertRow(t, r) == [t EXCEPT ![r] = @ + 1]

\* faulty variant: the resource-key column carries a unique constraint
InsertAcceptedUniqueKey(t, r) == \A x \in Rows : x.key = r.key => t[x] = 0

\* The schema createTable gives the table: id is the only constrained column
\* ("Removed unique constraint on patient_id"), so no stored row conflicts.
InsertAccepted(t, r) == TRUE

\* Number of rows of batch b (a sequence) equal to r
CountIn(b, r) == Cardinality({i \in DOMAIN b : b[i] = r})

IdleCall == [kind |-> "none", pc |-> "idle", connection |-> 0, teConnection |-> 0,
             columnsOk |-> TRUE, columns |-> <<>>, exists |-> FALSE]
IdleUpsert == [pc |-> "idle", rows |-> <<>>, i |-> 0, connection |-> 0,
               hasColumns |-> FALSE, inserted |-> 0, updated |-> 0, errors |-> 0,
               result |-> <<>>]
NoTask == [state |-> "unborn", connection |-> 0]

Settled(t) == tasks[t].state \in {"unborn", "fulfilled", "rejected"}
AllSettled == \A t \in DOMAIN tasks : Settled(t)
Ended(c) == c.pc \in {"idle", "returned", "thrown"}
\* The callers (main.js, the test suites) await every call of the handler, and
\* main() makes no further call after a throw: a new call starts only when the
\* previous one has ended and the insert tasks it left behind have drained.
NoCallInFlight ==
    Ended(ct) /\ Ended(up) /\ AllSettled /\ limitQueue = <<>> /\ nd.pc = "idle"
StartCall == [calls |-> hist.calls + 1, before |-> table,
              free |-> Len(connectionPool) + Cardinality(ext),
              fault |-> FALSE, noconn |-> FALSE,
              lost |-> hist.lost \cup ({up.connection} \ {0})]

(* --------------------------- row materializer ------------------------- *)
\* getResourceKey: resource.id || null  (an absent id and the empty string are falsy)
GetResourceKey(resource) ==
    IF "id" \in DOMAIN resource /\ resource.id # <<>> /\ resource.id[1] # ""
    THEN resource.id[1] ELSE Null

\* evaluateFhirPath: the collection a path yields on a node; getResourceKey() maps
\* the node to  r.id || null ; an unknown path yields the empty collection
EvaluateFhirPath(resource, path) ==
    CASE path = "getResourceKey()" -> <<GetResourceKey(resource)>>
      [] path \in DOMAIN resource -> resource[path]
      [] OTHER -> <<>>

\* JavaScript undefined, and an object held as a cell of a row
Undefined == "undefined"
ObjectValue == "[object]"
\* The paths of the resources that hold elements with fields of their own (the
\* other paths hold primitives)
ComplexPaths == {"address"}
\* context.$this: absent outside a forEach loop, the element inside one
NoContext == [defined |-> FALSE, primitive |-> FALSE, this |-> Undefined]
ElementContext(path, element) ==
    [defined |-> TRUE, primitive |-> path \notin ComplexPaths, this |-> element]

\* processColumns: one cell per column name (the last column of a name wins);
\* null when no cell holds data.  A "$this" column reads context.$this.
ProcessColumns(resource, columns, context) ==
    LET Evaluate(col) ==
            IF col.path = "$this"
            THEN <<IF ~context.defined THEN Undefined
                   ELSE IF context.primitive THEN context.this ELSE ObjectValue>>
            ELSE IF context.primitive
                 THEN (IF col.path = "getResourceKey()" THEN <<Null>> ELSE <<>>)
                 ELSE EvaluateFhirPath(resource, col.path)
        Cell(col) == LET result == Evaluate(col) IN
                       IF col.collection THEN result
                       ELSE IF Len(result) > 0 THEN result[1] ELSE Null
        Last(n) == CHOOSE i \in DOMAIN columns :
                       /\ columns[i].name = n
                       /\ \A j \in DOMAIN columns : j > i => columns[j].name # n
    IN [isNull |-> ~\E i \in DOMAIN columns :
                       columns[i].collection \/ Cell(columns[i]) # Null,
        row |-> [n \in {columns[i].name : i \in DOMAIN columns} |-> Cell(columns[Last(n)])]]

\* faulty variant: a clause passes as soon as it yields something
EvaluateWhereClausesNonEmpty(resource, whereClauses) ==
    \A i \in DOMAIN whereClauses :
        Len(EvaluateFhirPath(resource, whereClauses[i].path)) > 0

\* evaluateWhereClauses: every clause yields a collection whose first item is true
EvaluateWhereClauses(resource, whereClauses) ==
    \A i \in DOMAIN whereClauses :
        LET result == EvaluateFhirPath(resource, whereClauses[i].path) IN
          Len(result) > 0 /\ result[1] = "true"

\* { ...a, ...b }
Spread(a, b) == [n \in DOMAIN a \cup DOMAIN b |-> IF n \in DOMAIN b THEN b[n] ELSE a[n]]
EmptyRow == [n \in {} |-> Null]

\* faulty variant: no row is added when the forEach sections gave none
BaseRowFallbackNone(resultRows, mainRow) == resultRows

\* if (resultRows.length === 0 && Object.keys(mainRow).length > 0) push(mainRow)
BaseRowFallback(resultRows, mainRow) ==
    IF Len(resultRows) = 0 /\ DOMAIN mainRow # {} THEN <<mainRow>> ELSE resultRows

\* processResource: the rows of one resource, or a TypeError (Object.keys(null))
ProcessResource(resourceData, options) ==
    LET baseRow == ProcessColumns(resourceData, options.columns, NoContext)
        select == options.select
        mainRow[i \in 0..Len(select)] ==
            IF i = 0 THEN (IF baseRow.isNull THEN EmptyRow ELSE baseRow.row)
            ELSE LET regularRow == ProcessColumns(resourceData, select[i].column, NoContext) IN
                   IF select[i].forEach = "" /\ ~regularRow.isNull
                   THEN Spread(mainRow[i - 1], regularRow.row) ELSE mainRow[i - 1]
        main == mainRow[Len(select)]
        ElementRows(path, elements, column) ==
            LET f[k \in 0..Len(elements)] ==
                  IF k = 0 THEN <<>>
                  ELSE LET nestedRow == ProcessColumns(elements[k], column,
                                                       ElementContext(path, elements[k])) IN
                         IF ~nestedRow.isNull /\ DOMAIN nestedRow.row # {}
                         THEN Append(f[k - 1], Spread(main, nestedRow.row))
                         ELSE f[k - 1]
            IN f[Len(elements)]
        resultRows[i \in 0..Len(select)] ==
            IF i = 0 THEN <<>>
            ELSE IF select[i].forEach # ""
                 THEN resultRows[i - 1] \o
                      ElementRows(select[i].forEach,
                                  EvaluateFhirPath(resourceData, select[i].forEach),
                                  select[i].column)
                 ELSE resultRows[i - 1]
        result == resultRows[Len(select)]
    IN IF Len(select) = 0
       THEN [threw |-> baseRow.isNull,
             rows |-> IF ~baseRow.isNull /\ DOMAIN baseRow.row # {}
                      THEN <<baseRow.row>> ELSE <<>>]
       ELSE [threw |-> FALSE,
             rows |-> BaseRowFallback(result, main)]

\* JSON.parse(line) and the reads of the parsed value up to the resourceType test
ParseLine(line) ==
    [parseThrows |-> line.kind = "text",
     idThrows |-> line.kind = "null",
     isObject |-> line.kind \in {"array", "object"},
     resourceType |-> IF line.kind = "object" THEN line.node.resourceType ELSE <<>>]

\* faulty variant: a resource of another type is reported as an invalid record
LineTaskCountsOtherType(line, options) ==
    IF line.kind = "object" /\ line.node.resourceType = <<options.resource>>
    THEN [invalid |-> 0, parsed |-> 1, rows |-> ProcessResource(line.node, options).rows]
    ELSE [invalid |-> 1, parsed |-> 0, rows |-> <<>>]

\* The body of a line task: what it adds to invalidRecords, parsedRecords and rows
LineTask(line, options) ==
    LET p == ParseLine(line)
        Invalid == [invalid |-> 1, parsed |-> 0, rows |-> <<>>]
        Skipped == [invalid |-> 0, parsed |-> 0, rows |-> <<>>]
        processedRows == ProcessResource(line.node, options)
    IN CASE p.parseThrows \/ p.idThrows \/ ~p.isObject -> Invalid
         [] p.resourceType # <<options.resource>> -> Skipped
         [] options.hasWhere /\ ~EvaluateWhereClauses(line.node, options.whereClauses)
              -> Skipped
         [] processedRows.threw -> Invalid
         [] OTHER -> [invalid |-> 0, parsed |-> 1, rows |-> processedRows.rows]

IdleNd == [pc |-> "idle", options |-> CHOOSE v \in Views : TRUE, lines |-> <<>>,
           read |-> 0, rows |-> <<>>, totalRecords |-> 0, parsedRecords |-> 0,
           invalidRecords |-> 0, limitQueue |-> <<>>, activeCount |-> 0,
           started |-> <<>>, result |-> <<>>]

(* ------------------------------- Init --------------------------------- *)
\* no parseViewDefinition call yet
IdleParse == [pc |-> "idle"]

Init ==
    /\ cfg \in [asyncProcessing : BOOLEAN,
                concurrencyLimit : 1..MaxConcurrency,
                connectionPoolSize : 1..MaxPoolSize,
                batchSize : {BatchSize}]
    /\ connectionPool = [i \in 1..cfg.connectionPoolSize |-> i]
    /\ tableCreated = FALSE
    /\ tableColumns = <<>>
    /\ sequenceCreated = FALSE
    /\ table = EmptyTable
    /\ ct = IdleCall
    /\ up = IdleUpsert
    /\ tasks = <<>>
    /\ limitQueue = <<>>
    /\ activeCount = 0
    /\ ext = {}
    /\ hist = [calls |-> 0, before |-> EmptyTable, free |-> cfg.connectionPoolSize,
               fault |-> FALSE, noconn |-> FALSE, lost |-> {}]
    /\ nd = IdleNd
    /\ vp = IdleParse

(* ------------------- outside callers of the handler ------------------- *)
\* getDatabaseHandler() exposes getConnection / releaseConnection; the test
\* suites check a connection out around their own queries.
ExtGetConnection ==
    /\ NoCallInFlight
    /\ Cardinality(ext) < MaxExt
    /\ LET g == GetConnection(connectionPool) IN
         /\ g.ok
         /\ connectionPool' = g.pool
         /\ ext' = ext \cup {g.connection}
    /\ UNCHANGED <<cfg, nd, vp, tableCreated, tableColumns, sequenceCreated, table, ct, up, tasks,
                   limitQueue, activeCount, hist>>

ExtReleaseConnection ==
    /\ NoCallInFlight
    /\ \E c \in ext :
         /\ connectionPool' = ReleaseConnection(connectionPool, c)
         /\ ext' = ext \ {c}
    /\ UNCHANGED <<cfg, nd, vp, tableCreated, tableColumns, sequenceCreated, table, ct, up, tasks,
                   limitQueue, activeCount, hist>>

(* ----------------------------- tableExists ---------------------------- *)
\* const connection = await getConnection();  then runAndReadAll is issued
TableExistsCall ==
    /\ NoCallInFlight
    /\ hist.calls < MaxCalls
    /\ LET g == GetConnection(connectionPool) IN
         /\ hist' = [StartCall EXCEPT !.noconn = ~g.ok]
         /\ connectionPool' = g.pool
         /\ ct' = [IdleCall EXCEPT !.kind = "tableExists",
                                   !.pc = IF g.ok THEN "query" ELSE "thrown",
                                   !.teConnection = g.connection]
    /\ up' = IdleUpsert
    /\ tasks' = <<>>
    /\ UNCHANGED <<cfg, nd, vp, tableCreated, tableColumns, sequenceCreated, table,
                   limitQueue, activeCount, ext>>

\* the information_schema query settles; finally { releaseConnection }
TableExistsDone ==
    /\ ct.kind = "tableExists" /\ ct.pc = "query"
    /\ \E ok \in BOOLEAN :
         /\ ct' = [ct EXCEPT !.pc = IF ok THEN "returned" ELSE "thrown",
                             !.exists = ok /\ tableCreated,
                             !.teConnection = 0]
         /\ hist' = [hist EXCEPT !.fault = @ \/ ~ok]
    /\ connectionPool' = ReleaseConnection(connectionPool, ct.teConnection)
    /\ UNCHANGED <<cfg, nd, vp, tableCreated, tableColumns, sequenceCreated, table, up, tasks,
                   limitQueue, activeCount, ext>>

(* ----------------------------- createTable ---------------------------- *)
\* The column lists createTable is called with (the plan's columns of a view)
TableColumns == {BaseColumns, BaseColumns \o CityColumn}

\* faulty variant: the table is created whether or not it exists
NeedsCreationAlways(exists) == TRUE

\* if (!await tableExists(tableName)) { CREATE SEQUENCE ...; CREATE TABLE ... }
NeedsCreation(exists) == ~exists

\* const connection = await getConnection();   (outside the try block)
CreateTableCall ==
    /\ NoCallInFlight
    /\ hist.calls < MaxCalls
    /\ \E columnsOk \in BOOLEAN :
       \E columns \in IF columnsOk THEN TableColumns ELSE {<<>>} :
        LET g == GetConnection(connectionPool) IN
         /\ hist' = [StartCall EXCEPT !.noconn = ~g.ok]
         /\ connectionPool' = g.pool
         /\ ct' = [IdleCall EXCEPT !.kind = "createTable",
                                   !.pc = IF g.ok THEN "validate" ELSE "thrown",
                                   !.columnsOk = columnsOk,
                                   !.columns = columns,
                                   !.connection = g.connection]
    /\ up' = IdleUpsert
    /\ tasks' = <<>>
    /\ UNCHANGED <<cfg, nd, vp, tableCreated, tableColumns, sequenceCreated, table,
                   limitQueue, activeCount, ext>>

\* faulty variant: tableExists runs its query on the connection createTable holds
TableExistsConnectionShared(pool, held) ==
    [ok |-> TRUE, connection |-> held, pool |-> pool]

\* tableExists(tableName) inside createTable: const connection = await getConnection(),
\* while createTable's own connection stays checked out
TableExistsConnection(pool, held) == GetConnection(pool)

\* the columns check, then tableExists(tableName) up to its query; a throw runs
\* catch { throw } finally { releaseConnection(connection) }
CreateTableValidate ==
    /\ ct.kind = "createTable" /\ ct.pc = "validate"
    /\ LET g == TableExistsConnection(connectionPool, ct.connection) IN
         IF ct.columnsOk /\ g.ok
         THEN /\ connectionPool' = g.pool
              /\ ct' = [ct EXCEPT !.pc = "query", !.teConnection = g.connection]
              /\ UNCHANGED hist
         ELSE /\ connectionPool' = ReleaseConnection(connectionPool, ct.connection)
              /\ ct' = [ct EXCEPT !.pc = "thrown", !.connection = 0]
              /\ hist' = [hist EXCEPT !.noconn = ct.columnsOk]
    /\ UNCHANGED <<cfg, nd, vp, tableCreated, tableColumns, sequenceCreated, table, up, tasks,
                   limitQueue, activeCount, ext>>

\* tableExists settles inside createTable
CreateTableExistsDone ==
    /\ ct.kind = "createTable" /\ ct.pc = "query"
    /\ \E ok \in BOOLEAN :
        LET pool1 == ReleaseConnection(connectionPool, ct.teConnection) IN
         /\ hist' = [hist EXCEPT !.fault = @ \/ ~ok]
         /\ IF ok /\ NeedsCreation(tableCreated)
            THEN /\ connectionPool' = pool1
                 /\ ct' = [ct EXCEPT !.pc = "createSequence", !.teConnection = 0]
            ELSE /\ connectionPool' = ReleaseConnection(pool1, ct.connection)
                 /\ ct' = [ct EXCEPT !.pc = IF ok THEN "returned" ELSE "thrown",
                                     !.exists = ok /\ tableCreated,
                                     !.teConnection = 0, !.connection = 0]
    /\ UNCHANGED <<cfg, nd, vp, tableCreated, tableColumns, sequenceCreated, table, up, tasks,
                   limitQueue, activeCount, ext>>

\* CREATE SEQUENCE <table>_id_seq settles (it fails when the sequence exists)
CreateSequenceDone ==
    /\ ct.kind = "createTable" /\ ct.pc = "createSequence"
    /\ \E ok \in BOOLEAN :
         /\ hist' = [hist EXCEPT !.fault = @ \/ ~ok]
         /\ IF ok /\ ~sequenceCreated
            THEN /\ sequenceCreated' = TRUE
                 /\ ct' = [ct EXCEPT !.pc = "createTable"]
                 /\ UNCHANGED connectionPool
            ELSE /\ connectionPool' = ReleaseConnection(connectionPool, ct.connection)
                 /\ ct' = [ct EXCEPT !.pc = "thrown", !.connection = 0]
                 /\ UNCHANGED sequenceCreated
    /\ UNCHANGED <<cfg, nd, vp, tableCreated, tableColumns, table, up, tasks,
                   limitQueue, activeCount, ext>>

\* CREATE TABLE settles; finally { releaseConnection(connection) }
CreateTableDone ==
    /\ ct.kind = "createTable" /\ ct.pc = "createTable"
    /\ \E ok \in BOOLEAN :
         /\ hist' = [hist EXCEPT !.fault = @ \/ ~ok]
         /\ tableCreated' = (tableCreated \/ ok)
         /\ tableColumns' = IF ok THEN ct.columns ELSE tableColumns
         /\ ct' = [ct EXCEPT !.pc = IF ok THEN "returned" ELSE "thrown",
                             !.connection = 0]
    /\ connectionPool' = ReleaseConnection(connectionPool, ct.connection)
    /\ UNCHANGED <<cfg, nd, vp, sequenceCreated, table, up, tasks,
                   limitQueue, activeCount, ext>>

(* ------------------------------ upsertData ---------------------------- *)
\* faulty variant: a chunk is taken to be its first row only
ChunkOfFirstRow(rows, i) == {t \in DOMAIN rows : t = i + 1}

\* batch.map(row => limit(...)): the rows i+1 .. i+batchSize join the limiter queue
ChunkOf(rows, i) == {t \in DOMAIN rows : i < t /\ t <= i + cfg.batchSize}
Enqueue(queue, rows, i) ==
    queue \o [j \in 1..(Min(i + cfg.batchSize, Len(rows)) - i) |-> i + j]

\* rows.length === 0 returns at once; otherwise the schema connection is taken
\* and the information_schema.columns query is issued
UpsertCall ==
    /\ NoCallInFlight
    /\ hist.calls < MaxCalls
    /\ ct' = IdleCall
    /\ \E rows \in Batches :
        LET g == GetConnection(connectionPool) IN
         IF Len(rows) = 0
         THEN /\ up' = [IdleUpsert EXCEPT !.pc = "returned",
                         !.result = [inserted |-> 0, updated |-> 0, errors |-> 0]]
              /\ tasks' = <<>>
              /\ hist' = StartCall
              /\ UNCHANGED connectionPool
         ELSE /\ hist' = [StartCall EXCEPT !.noconn = ~g.ok]
              /\ up' = [IdleUpsert EXCEPT !.pc = IF g.ok THEN "schema" ELSE "thrown",
                                          !.rows = rows,
                                          !.connection = g.connection]
              /\ tasks' = [t \in DOMAIN rows |-> NoTask]
              /\ connectionPool' = g.pool
    /\ UNCHANGED <<cfg, nd, vp, tableCreated, tableColumns, sequenceCreated, table,
                   limitQueue, activeCount, ext>>

\* the schema query settles: on success the connection is released, the limiter is
\* made and the first chunk is queued; on a database error the call throws
UpsertSchemaDone ==
    /\ up.pc = "schema"
    /\ \E ok \in BOOLEAN :
         /\ hist' = [hist EXCEPT !.fault = @ \/ ~ok]
         /\ IF ok
            THEN /\ connectionPool' = ReleaseConnection(connectionPool, up.connection)
                 /\ up' = [up EXCEPT !.pc = "chunk", !.connection = 0,
                                     !.hasColumns = tableCreated]
                 /\ limitQueue' = Enqueue(limitQueue, up.rows, 0)
                 /\ tasks' = [t \in DOMAIN tasks |->
                                IF t \in ChunkOf(up.rows, 0)
                                THEN [tasks[t] EXCEPT !.state = "queued"] ELSE tasks[t]]
            ELSE /\ up' = [up EXCEPT !.pc = "thrown"]
                 /\ UNCHANGED <<connectionPool, limitQueue, tasks>>
    /\ UNCHANGED <<cfg, nd, vp, tableCreated, tableColumns, sequenceCreated, table, ct, activeCount, ext>>

\* p-limit starts the head of its queue while fewer than `concurrency` tasks run;
\* the task body runs up to  connection = await getConnection()
TaskStart ==
    /\ limitQueue # <<>>
    /\ activeCount < LimitCapacity
    /\ LET t == Head(limitQueue)
           g == GetConnection(connectionPool) IN
         /\ connectionPool' = g.pool
         /\ tasks' = [tasks EXCEPT ![t] = [state |-> IF g.ok THEN "acquired" ELSE "noconn",
                                           connection |-> g.connection]]
         /\ hist' = [hist EXCEPT !.noconn = @ \/ ~g.ok]
    /\ limitQueue' = Tail(limitQueue)
    /\ activeCount' = activeCount + 1
    /\ UNCHANGED <<cfg, nd, vp, tableCreated, tableColumns, sequenceCreated, table, ct, up, ext>>

\* faulty variant: the resource-key check is gone
MissingKeyNever(row) == FALSE

\* !row[resourceKey]
MissingKey(row) == row.key = NoKey

\* A task's promise rejects: Promise.all rejects, the outer catch rethrows
Reject(u) == [u EXCEPT !.pc = IF @ = "chunk" THEN "thrown" ELSE @]

\* catch (error) { errors++; ... values.map(...) }: `values` is declared in the try
\* block, so the catch block itself throws and the task rejects
CatchBlock(u) == Reject([u EXCEPT !.errors = @ + 1])

\* getConnection threw: catch block, then finally with connection undefined
TaskNoConnection(t) ==
    /\ tasks[t].state = "noconn"
    /\ up' = CatchBlock(up)
    /\ tasks' = [tasks EXCEPT ![t].state = "rejected"]
    /\ activeCount' = activeCount - 1
    /\ UNCHANGED <<cfg, nd, vp, connectionPool, tableCreated, tableColumns, sequenceCreated, table, ct,
                   limitQueue, ext, hist>>

\* faulty variant: a row without its key is skipped without being counted
SkipRowUncounted(u) == u

\* logger.error('Missing resource key ...'); errors++; return;
SkipRow(u) == [u EXCEPT !.errors = @ + 1]

\* if (!row[resourceKey]) { errors++; return; } ... else connection.run(query, values)
TaskCheckKey(t) ==
    /\ tasks[t].state = "acquired"
    /\ IF MissingKey(up.rows[t])
       THEN /\ up' = SkipRow(up)
            /\ connectionPool' = ReleaseConnection(connectionPool, tasks[t].connection)
            /\ tasks' = [tasks EXCEPT ![t] = [state |-> "fulfilled", connection |-> 0]]
            /\ activeCount' = activeCount - 1
       ELSE /\ tasks' = [tasks EXCEPT ![t].state = "inserting"]
            /\ UNCHANGED <<up, connectionPool, activeCount>>
    /\ UNCHANGED <<cfg, nd, vp, tableCreated, tableColumns, sequenceCreated, table, ct, limitQueue, ext, hist>>

\* the INSERT settles: inserted++ or the catch block; finally releaseConnection
TaskInsertDone(t) ==
    /\ tasks[t].state = "inserting"
    /\ \E ok \in BOOLEAN :
         /\ hist' = [hist EXCEPT !.fault = @ \/ ~ok]
         /\ IF ok /\ up.hasColumns /\ InsertAccepted(table, up.rows[t])
            THEN /\ table' = InsertRow(table, up.rows[t])
                 /\ up' = [up EXCEPT !.inserted = @ + 1]
                 /\ tasks' = [tasks EXCEPT ![t] = [state |-> "fulfilled", connection |-> 0]]
            ELSE /\ up' = CatchBlock(up)
                 /\ tasks' = [tasks EXCEPT ![t] = [state |-> "rejected", connection |-> 0]]
                 /\ UNCHANGED table
    /\ connectionPool' = ReleaseConnection(connectionPool, tasks[t].connection)
    /\ activeCount' = activeCount - 1
    /\ UNCHANGED <<cfg, nd, vp, tableCreated, tableColumns, sequenceCreated, ct, limitQueue, ext>>

\* await Promise.all(...) fulfils: the next chunk is queued, or the counts are returned
ChunkDone ==
    /\ up.pc = "chunk"
    /\ \A t \in ChunkOf(up.rows, up.i) : tasks[t].state = "fulfilled"
    /\ LET next == up.i + cfg.batchSize IN
         IF next < Len(up.rows)
         THEN /\ up' = [up EXCEPT !.i = next]
              /\ limitQueue' = Enqueue(limitQueue, up.rows, next)
              /\ tasks' = [t \in DOMAIN tasks |->
                             IF t \in ChunkOf(up.rows, next)
                             THEN [tasks[t] EXCEPT !.state = "queued"] ELSE tasks[t]]
         ELSE /\ up' = [up EXCEPT !.pc = "returned",
                                  !.result = [inserted |-> up.inserted,
                                              updated |-> up.updated,
                                              errors |-> up.errors]]
              /\ UNCHANGED <<limitQueue, tasks>>
    /\ UNCHANGED <<cfg, nd, vp, connectionPool, tableCreated, tableColumns, sequenceCreated, table, ct,
                   activeCount, ext, hist>>

(* ----------------------------- processNdjson -------------------------- *)
\* processNdjson(filePath, options): counters at zero, the limiter made, the stream
\* opened.  main.js runs it for a view before that view's createTable and
\* upsertData; the model follows the run of the first view.
ProcessNdjsonCall ==
    /\ NoCallInFlight
    /\ hist.calls = 0 /\ ext = {}
    /\ \E options \in Views, lines \in Files :
         nd' = [IdleNd EXCEPT !.pc = "reading", !.options = options, !.lines = lines]
    /\ UNCHANGED <<dbVars, vp>>

\* processNdjson on a file of one line, for every view definition and either way of
\* passing its columns
ProcessNdjsonOneLine ==
    /\ NoCallInFlight
    /\ hist.calls = 0 /\ ext = {}
    /\ \E options \in WideOptions, lines \in OneLineFiles :
         nd' = [IdleNd EXCEPT !.pc = "reading", !.options = options, !.lines = lines]
    /\ UNCHANGED <<dbVars, vp>>

\* processNdjson on a file of two resources, for the same view definitions
ProcessNdjsonTwoLines ==
    /\ NoCallInFlight
    /\ hist.calls = 0 /\ ext = {}
    /\ \E options \in WideOptions, lines \in TwoLineFiles :
         nd' = [IdleNd EXCEPT !.pc = "reading", !.options = options, !.lines = lines]
    /\ UNCHANGED <<dbVars, vp>>

\* processNdjson on a file of at most MaxFairLines lines
ProcessNdjsonShort ==
    /\ NoCallInFlight
    /\ hist.calls = 0 /\ ext = {}
    /\ \E options \in Views, lines \in ShortFiles :
         nd' = [IdleNd EXCEPT !.pc = "reading", !.options = options, !.lines = lines]
    /\ UNCHANGED <<dbVars, vp>>

\* rl.on('line'): totalRecords++ and the line's task joins the limiter queue
NdLine ==
    /\ nd.pc = "reading"
    /\ nd.read < Len(nd.lines)
    /\ nd' = [nd EXCEPT !.read = @ + 1,
                        !.totalRecords = @ + 1,
                        !.limitQueue = Append(@, nd.read + 1)]
    /\ UNCHANGED <<dbVars, vp>>

\* faulty variant: the resolving task goes ahead of the line tasks still queued
ResolveTaskAhead(queue) == <<0>> \o queue

\* limit(() => { ...; resolve(rows); }): the resolving task (task 0) joins the
\* limiter queue behind the line tasks
ResolveTask(queue) == Append(queue, 0)

\* rl.on('close'): the resolving task joins the limiter queue
NdClose ==
    /\ nd.pc = "reading"
    /\ nd.read = Len(nd.lines)
    /\ nd' = [nd EXCEPT !.pc = "closed", !.limitQueue = ResolveTask(@)]
    /\ UNCHANGED <<dbVars, vp>>

\* rl.on('error'): reject(err); the tasks already queued still run
NdError ==
    /\ nd.pc = "reading"
    /\ nd' = [nd EXCEPT !.pc = "rejected"]
    /\ UNCHANGED <<dbVars, vp>>

\* faulty variant: the first row of a resource is put before the rows collected
PushRowsSplit(rows, processedRows) ==
    IF Len(processedRows) >= 2 /\ rows # <<>>
    THEN <<processedRows[1]>> \o rows \o Tail(processedRows)
    ELSE rows \o processedRows

\* rows.push(...processedRows)
PushRows(rows, processedRows) == rows \o processedRows

\* p-limit starts the head of its queue while fewer than `concurrency` tasks run.
\* A task body has no await: it runs to its end in the step that starts it.
NdTaskStart ==
    /\ nd.limitQueue # <<>>
    /\ nd.activeCount < LimitCapacity
    /\ LET t == Head(nd.limitQueue)
           started == [nd EXCEPT !.limitQueue = Tail(@),
                                 !.activeCount = @ + 1,
                                 !.started = Append(@, t)]
       IN IF t = 0
          THEN nd' = [started EXCEPT !.pc = IF @ = "closed" THEN "resolved" ELSE @,
                                     !.result = IF nd.pc = "closed" THEN nd.rows ELSE @]
          ELSE LET o == LineTask(nd.lines[t], nd.options) IN
                 nd' = [started EXCEPT !.rows = PushRows(@, o.rows),
                                       !.parsedRecords = @ + o.parsed,
                                       !.invalidRecords = @ + o.invalid]
    /\ UNCHANGED <<dbVars, vp>>

\* p-limit's next(): a started task has settled and gives its slot back
NdTaskNext ==
    /\ nd.activeCount > 0
    /\ nd' = [nd EXCEPT !.activeCount = @ - 1]
    /\ UNCHANGED <<dbVars, vp>>

\* the caller's await of processNdjson settles and the closure is dropped
NdReturn ==
    /\ nd.pc \in {"resolved", "rejected"}
    /\ nd.limitQueue = <<>> /\ nd.activeCount = 0
    /\ nd' = IdleNd
    /\ UNCHANGED <<dbVars, vp>>

(* ----------------------------- view parser ---------------------------- *)
\* parseViewDefinition(viewDefinition): synchronous, it returns or throws at once
ParseViewDefinitionCall ==
    /\ vp.pc = "idle"
    /\ NoCallInFlight /\ hist.calls = 0 /\ ext = {}
    /\ \E viewDefinition \in RawViewDefinitions :
          vp' = [viewDefinition |-> viewDefinition] @@ ParseViewDefinition(viewDefinition)
    /\ UNCHANGED <<dbVars, nd>>

\* the caller takes the plan, or catches the error, and goes on to the next view
ParseViewDefinitionDone ==
    /\ vp.pc \in {"returned", "threw"}
    /\ vp' = IdleParse
    /\ UNCHANGED <<dbVars, nd>>

(* ---------------------------- specification --------------------------- *)
Next ==
    \/ ExtGetConnection
    \/ ExtReleaseConnection
    \/ TableExistsCall
    \/ TableExistsDone
    \/ CreateTableCall
    \/ CreateTableValidate
    \/ CreateTableExistsDone
    \/ CreateSequenceDone
    \/ CreateTableDone
    \/ UpsertCall
    \/ UpsertSchemaDone
    \/ TaskStart
    \/ \E t \in DOMAIN tasks : TaskNoConnection(t)
    \/ \E t \in DOMAIN tasks : TaskCheckKey(t)
    \/ \E t \in DOMAIN tasks : TaskInsertDone(t)
    \/ ChunkDone
    \/ ProcessNdjsonCall
    \/ NdLine
    \/ NdClose
    \/ NdError
    \/ NdTaskStart
    \/ NdTaskNext
    \/ NdReturn

Spec == Init /\ [][Next]_vars

\* The stream processor alone
NextNd ==
    \/ ProcessNdjsonCall
    \/ NdLine
    \/ NdClose
    \/ NdError
    \/ NdTaskStart
    \/ NdTaskNext
    \/ NdReturn

SpecNd == Init /\ [][NextNd]_vars

\* The stream processor under the event loop's scheduling: readline delivers every
\* line of the file and then 'close'; a callback or microtask that is ready runs
\* (the limiter starts the head of its queue when a slot is free, and a settled
\* task gives its slot back).  A read error is an event of the environment and
\* is not forced.
NextNdFair ==
    \/ ProcessNdjsonShort
    \/ NdLine
    \/ NdClose
    \/ NdError
    \/ NdTaskStart
    \/ NdTaskNext
    \/ NdReturn

SpecNdFair ==
    /\ Init /\ [][NextNdFair]_vars
    /\ WF_vars(NdLine) /\ WF_vars(NdClose)
    /\ WF_vars(NdTaskStart) /\ WF_vars(NdTaskNext)

\* The stream processor on one-line files: the materialization of one line
NextLine ==
    \/ ProcessNdjsonOneLine
    \/ NdLine
    \/ NdClose
    \/ NdError
    \/ NdTaskStart
    \/ NdTaskNext
    \/ NdReturn

SpecLine == Init /\ [][NextLine]_vars

\* processNdjson alone, over files of two resources
NextPair ==
    \/ ProcessNdjsonTwoLines
    \/ NdLine
    \/ NdClose
    \/ NdError
    \/ NdTaskStart
    \/ NdTaskNext
    \/ NdReturn

SpecPair == Init /\ [][NextPair]_vars

\* The parser alone, over the view definitions above
NextParse ==
    \/ ParseViewDefinitionCall
    \/ ParseViewDefinitionDone
SpecParse == Init /\ [][NextParse]_vars

(* ============================== claims ================================ *)
UpReturned == up.pc = "returned"
UpThrown == up.pc = "thrown"
BatchKeys(rows) == {rows[i].key : i \in DOMAIN rows} \ {NoKey}
\* stored rows a delete-by-key pass over the batch's keys would remove
Removed(before, rows) ==
    LET S == {r \in StoredRows : r.key \in BatchKeys(rows)}
        f[X \in SUBSET S] == IF X = {} THEN 0
                             ELSE LET x == CHOOSE y \in X : TRUE IN before[x] + f[X \ {x}]
    IN f[S]

\* C1: when upsertData returns, for every key of the batch the stored rows with that
\* key are exactly the batch's rows for it, and rows of other keys are as before.
C1_UpsertReplacesKeys ==
    UpReturned =>
        \A r \in StoredRows :
            table[r] = IF r.key \in BatchKeys(up.rows)
                       THEN CountIn(up.rows, r) ELSE hist.before[r]

\* C2: for a non-empty batch upsertData returns inserted = the batch rows inserted,
\* updated = deleted = the stored rows removed for the batch's keys.
C2_UpsertCounts ==
    (UpReturned /\ Len(up.rows) > 0) =>
        /\ up.result.inserted = Cardinality({i \in DOMAIN up.rows : ~MissingKey(up.rows[i])})
        /\ up.result.updated = Removed(hist.before, up.rows)
        /\ "deleted" \in DOMAIN up.result
        /\ up.result.deleted = Removed(hist.before, up.rows)

\* C3: when upsertData throws, the table holds what it held before the call.
C3_ThrowLeavesTableUnchanged ==
    UpThrown => table = hist.before

\* C4: a row whose insert (or connection acquisition) fails never rejects its task,
\* so upsertData throws only for a failure before the first chunk.
C4_RowFailureDoesNotAbort ==
    /\ \A t \in DOMAIN tasks : tasks[t].state # "rejected"
    /\ UpThrown => \A t \in DOMAIN tasks : tasks[t].state = "unborn"

\* C5: a task that holds its connection and finds the row's resource key missing
\* adds exactly one to errors, inserts nothing, leaves the call running and fulfils;
\* a keyless row is never stored; a returned batch of keyless rows only has
\* errors = n, inserted = 0 and left the table as it was; and such a batch returns
\* whenever no query and no connection acquisition of the call failed.
C5_KeylessStep ==
    \A t \in DOMAIN tasks :
        (tasks[t].state = "acquired" /\ up.rows[t].key = NoKey
            /\ tasks'[t].state # "acquired") =>
        /\ up'.errors = up.errors + 1
        /\ up'.inserted = up.inserted
        /\ up'.pc = up.pc
        /\ table' = table
        /\ tasks'[t] = [state |-> "fulfilled", connection |-> 0]
        /\ limitQueue' = limitQueue
AllKeyless(rows) == \A i \in DOMAIN rows : rows[i].key = NoKey
C5_KeylessState ==
    /\ \A r \in Rows : r.key = NoKey => table[r] = 0
    /\ (UpReturned /\ Len(up.rows) > 0 /\ AllKeyless(up.rows)) =>
          /\ up.result.errors = Len(up.rows)
          /\ up.result.inserted = 0
          /\ table = hist.before
    /\ (Ended(up) /\ Len(up.rows) > 0 /\ AllKeyless(up.rows)
            /\ ~hist.fault /\ ~hist.noconn) => UpReturned
C5_MissingKeySkipped == [][C5_KeylessStep]_vars /\ []C5_KeylessState
C5_Witness ==
    /\ UpReturned /\ Len(up.rows) = MaxRows /\ AllKeyless(up.rows)
    /\ up.result.errors = MaxRows

\* C6: with the table in place, every row keyed and no database or pool failure,
\* upsertData returns inserted = |rows|, errors = 0 and the table holds one more
\* stored row per batch row, also when several rows share a resource key.
NoFailure == up.hasColumns /\ ~hist.fault /\ ~hist.noconn
C6_DuplicateKeysAllInserted ==
    (Ended(up) /\ Len(up.rows) > 0 /\ NoFailure
        /\ \A i \in DOMAIN up.rows : up.rows[i].key # NoKey) =>
    /\ UpReturned
    /\ up.result.inserted = Len(up.rows)
    /\ up.result.errors = 0
    /\ \A r \in Rows : table[r] = hist.before[r] + CountIn(up.rows, r)
C6_Witness ==
    /\ UpReturned /\ NoFailure
    /\ \E i, j \in DOMAIN up.rows : i # j /\ up.rows[i].key = up.rows[j].key
                                     /\ up.rows[i].key # NoKey
    /\ up.result.inserted = Len(up.rows)
    /\ \E r \in StoredRows : hist.before[r] > 0 /\ table[r] >= 3

\* C7: when a call of tableExists, createTable or upsertData has ended (returned or
\* thrown), the pool is as large as it was when the call began.
C7_ConnectionsReleased ==
    ((ct.pc \in {"returned", "thrown"}) \/ (up.pc \in {"returned", "thrown"})) =>
        Len(connectionPool) + Cardinality(ext) = hist.free

\* C8: getConnection on an empty pool fails at once and leaves the pool empty; on a
\* non-empty pool it takes the top connection for the one caller; so every connection
\* is in exactly one place: the pool, or one holder.
HeldBy ==
    [h \in {<<"ct", 0>>, <<"te", 0>>, <<"up", 0>>}
          \cup {<<"task", t>> : t \in DOMAIN tasks}
          \cup {<<"ext", c>> : c \in ext} \cup {<<"lost", c>> : c \in hist.lost} |->
        CASE h[1] = "ct" -> ct.connection
          [] h[1] = "te" -> ct.teConnection
          [] h[1] = "up" -> up.connection
          [] h[1] = "task" -> tasks[h[2]].connection
          [] OTHER -> h[2]]
Holders == {h \in DOMAIN HeldBy : HeldBy[h] # 0}
C8_Exclusive ==
    /\ \A h1, h2 \in Holders : h1 # h2 => HeldBy[h1] # HeldBy[h2]
    /\ \A h \in Holders : \A i \in DOMAIN connectionPool : connectionPool[i] # HeldBy[h]
    /\ \A i, j \in DOMAIN connectionPool : i # j => connectionPool[i] # connectionPool[j]
    /\ Len(connectionPool) + Cardinality(Holders) = cfg.connectionPoolSize
C8_StartStep ==
    \A t \in DOMAIN tasks :
        (tasks[t].state = "queued" /\ tasks'[t].state # "queued") =>
            IF connectionPool = <<>>
            THEN tasks'[t] = [state |-> "noconn", connection |-> 0]
                 /\ connectionPool' = connectionPool
            ELSE tasks'[t] = [state |-> "acquired",
                             connection |-> connectionPool[Len(connectionPool)]]
                 /\ connectionPool' = SubSeq(connectionPool, 1, Len(connectionPool) - 1)
C8_GetConnection == [][C8_StartStep]_vars /\ []C8_Exclusive
C8_Witness ==
    /\ connectionPool = <<>>
    /\ \E t1, t2 \in DOMAIN tasks :
          /\ tasks[t1].state = "noconn"
          /\ tasks[t2].state \in {"acquired", "inserting"} /\ tasks[t2].connection # 0

\* C9: the tasks in flight under a limiter (row inserts of upsertData, line tasks of
\* processNdjson) never number more than concurrencyLimit when asyncProcessing is
\* set, and never more than one when it is not; then a task starts only after every
\* task before it has settled, in row order and in line order.
InFlight == {t \in DOMAIN tasks : tasks[t].state \in {"acquired", "noconn", "inserting"}}
C9_LimiterBound ==
    /\ cfg.asyncProcessing =>
          /\ Cardinality(InFlight) <= cfg.concurrencyLimit
          /\ activeCount <= cfg.concurrencyLimit
          /\ nd.activeCount <= cfg.concurrencyLimit
    /\ ~cfg.asyncProcessing =>
          /\ Cardinality(InFlight) <= 1 /\ activeCount <= 1 /\ nd.activeCount <= 1
          /\ \A t1, t2 \in DOMAIN tasks :
                (t1 < t2 /\ tasks[t2].state \notin {"unborn", "queued"}) =>
                    tasks[t1].state \in {"fulfilled", "rejected"}
          /\ \A i \in DOMAIN nd.started :
                nd.started[i] = IF i <= Len(nd.lines) THEN i ELSE 0
          /\ (nd.activeCount = 1 /\ nd.started # <<>>) =>
                nd.limitQueue = [j \in 1..(nd.read - Len(nd.started)
                                            + (IF nd.pc = "closed" THEN 1 ELSE 0)) |->
                                   IF Len(nd.started) + j <= Len(nd.lines)
                                   THEN Len(nd.started) + j ELSE 0]
C9_Witness ==
    /\ ~cfg.asyncProcessing /\ cfg.concurrencyLimit = MaxConcurrency
    /\ Len(connectionPool) >= 1
    /\ limitQueue # <<>>
    /\ \E t1, t2 \in DOMAIN tasks :
          tasks[t1].state = "inserting" /\ tasks[t2].state = "queued"

\* C10: when processNdjson resolves, invalidRecords counts exactly the lines that
\* are not JSON, are not a JSON object, or whose materialization threw, and the
\* result holds, in line order, the rows of every other line (none for a line of
\* another resource type or one the where clauses filter out).
NotAnObject(line) == line.kind \in {"text", "scalar", "null", "array"}
Admitted(line, options) ==
    /\ line.kind = "object"
    /\ line.node.resourceType = <<options.resource>>
    /\ options.hasWhere => EvaluateWhereClauses(line.node, options.whereClauses)
BadLine(line, options) ==
    \/ NotAnObject(line)
    \/ Admitted(line, options) /\ ProcessResource(line.node, options).threw
GoodRows(lines, options) ==
    LET f[i \in 0..Len(lines)] ==
          IF i = 0 THEN <<>>
          ELSE IF Admitted(lines[i], options) /\ ~BadLine(lines[i], options)
               THEN f[i - 1] \o ProcessResource(lines[i].node, options).rows
               ELSE f[i - 1]
    IN f[Len(lines)]
C10_BadLinesCounted ==
    nd.pc = "resolved" =>
        /\ nd.invalidRecords =
              Cardinality({i \in DOMAIN nd.lines : BadLine(nd.lines[i], nd.options)})
        /\ nd.result = GoodRows(nd.lines, nd.options)

\* C11: the task of a line that holds a JSON object of another resource type than
\* the view's leaves rows, parsedRecords and invalidRecords as they were; the line
\* was counted in totalRecords when it was read, and in nothing else.
OtherType(line, options) ==
    line.kind = "object" /\ line.node.resourceType # <<options.resource>>
C11_TaskStep ==
    (nd.limitQueue # <<>> /\ Len(nd'.started) = Len(nd.started) + 1
        /\ Head(nd.limitQueue) # 0
        /\ OtherType(nd.lines[Head(nd.limitQueue)], nd.options)) =>
    /\ nd'.rows = nd.rows
    /\ nd'.parsedRecords = nd.parsedRecords
    /\ nd'.invalidRecords = nd.invalidRecords
    /\ nd'.totalRecords = nd.totalRecords
C11_LineStep ==
    (nd.pc = "reading" /\ nd'.read = nd.read + 1) =>
        nd'.totalRecords = nd.totalRecords + 1
C11_Resolved ==
    (nd.pc = "resolved" /\ \A i \in DOMAIN nd.lines : OtherType(nd.lines[i], nd.options)) =>
        /\ nd.result = <<>> /\ nd.parsedRecords = 0 /\ nd.invalidRecords = 0
        /\ nd.totalRecords = Len(nd.lines)
C11_OtherTypeSkipped == [][C11_TaskStep /\ C11_LineStep]_vars /\ []C11_Resolved
C11_Witness ==
    /\ nd.pc = "resolved" /\ Len(nd.lines) = MaxLines
    /\ OtherType(nd.lines[2], nd.options)
    /\ nd.totalRecords = MaxLines /\ nd.parsedRecords = MaxLines - 1
    /\ nd.invalidRecords = 0 /\ Len(nd.result) >= 2

\* The resolved call of a one-line file whose line was admitted
ResolvedAdmitted ==
    nd.pc = "resolved" /\ Len(nd.lines) = 1 /\ Admitted(nd.lines[1], nd.options)
\* The view is base columns plus one forEach branch
OneForEach(options) ==
    /\ Len(options.select) = 2
    /\ options.select[1].forEach = "" /\ options.select[2].forEach # ""
    /\ options.select[1].column = BaseColumns
Elements(node, options) == EvaluateFhirPath(node, options.select[2].forEach)
\* the base cells merged with the branch cells of element k
ElementRow(node, options, k) ==
    LET path == options.select[2].forEach
        element == Elements(node, options)[k] IN
      Spread(ProcessColumns(node, options.select[1].column, NoContext).row,
             ProcessColumns(element, options.select[2].column,
                            ElementContext(path, element)).row)

\* C12: for an admitted resource and a view of base columns plus one forEach branch
\* whose expression yields M >= 1 elements, processNdjson returns M rows, the k-th
\* holding the base cells merged with the branch cells of the k-th element.
C12_RowPerElement ==
    (ResolvedAdmitted /\ OneForEach(nd.options)
        /\ Len(Elements(nd.lines[1].node, nd.options)) >= 1) =>
    /\ Len(nd.result) = Len(Elements(nd.lines[1].node, nd.options))
    /\ \A k \in DOMAIN nd.result :
          nd.result[k] = ElementRow(nd.lines[1].node, nd.options, k)

ForEachBranches(options) ==
    /\ Len(options.select) >= 2
    /\ options.select[1].forEach = "" /\ options.select[1].forEachOrNull = ""
    /\ options.select[1].unionAll = <<>>
    /\ \A i \in 2..Len(options.select) : options.select[i].forEach # ""
NoElements(node, options) ==
    \A i \in 2..Len(options.select) :
        EvaluateFhirPath(node, options.select[i].forEach) = <<>>
BaseCells(node, options) == ProcessColumns(node, options.select[1].column, NoContext)

\* C14: for a view of base columns plus forEach branches, an admitted resource whose
\* forEach expressions all yield no element and whose base columns hold data gives
\* exactly one row, and the keys of this row are the base columns only.
C14_BaseOnlyRow ==
    (ResolvedAdmitted /\ ForEachBranches(nd.options)
        /\ NoElements(nd.lines[1].node, nd.options)
        /\ ~BaseCells(nd.lines[1].node, nd.options).isNull) =>
    /\ Len(nd.result) = 1
    /\ nd.result[1] = BaseCells(nd.lines[1].node, nd.options).row

\* The view is base columns plus one forEachOrNull branch
OneForEachOrNull(options) ==
    /\ Len(options.select) = 2
    /\ options.select[1].forEach = "" /\ options.select[1].forEachOrNull = ""
    /\ options.select[1].column = BaseColumns
    /\ options.select[2].forEach = "" /\ options.select[2].forEachOrNull # ""
ElementsOrNull(node, options) ==
    EvaluateFhirPath(node, options.select[2].forEachOrNull)
\* the base cells merged with the branch cells of element k
ElementOrNullRow(node, options, k) ==
    LET path == options.select[2].forEachOrNull
        element == ElementsOrNull(node, options)[k] IN
      Spread(BaseCells(node, options).row,
             ProcessColumns(element, options.select[2].column,
                            ElementContext(path, element)).row)
\* the base cells with every branch column null
NullBranchRow(node, options) ==
    Spread(BaseCells(node, options).row,
           [name \in {options.select[2].column[i].name :
                         i \in DOMAIN options.select[2].column} |-> Null])

\* C15: for a view of base columns plus one forEachOrNull branch and an admitted
\* resource whose base columns hold data, processNdjson returns one row per element
\* of the expression when there are elements, and otherwise exactly one row holding
\* the base cells with every branch column present and null.
C15_ForEachOrNull ==
    (ResolvedAdmitted /\ OneForEachOrNull(nd.options)
        /\ ~BaseCells(nd.lines[1].node, nd.options).isNull) =>
    LET node == nd.lines[1].node
        elements == ElementsOrNull(node, nd.options) IN
      IF elements = <<>>
      THEN nd.result = <<NullBranchRow(node, nd.options)>>
      ELSE /\ Len(nd.result) = Len(elements)
           /\ \A k \in DOMAIN nd.result :
                 nd.result[k] = ElementOrNullRow(node, nd.options, k)

\* The view is base columns plus one select holding a unionAll of forEach children
OneUnionAll(options) ==
    /\ Len(options.select) = 2
    /\ options.select[1].forEach = "" /\ options.select[1].unionAll = <<>>
    /\ options.select[1].column = BaseColumns
    /\ options.select[2].unionAll # <<>>
\* every column name of the children of the unionAll
UnionNames(options) ==
    {col.name : col \in {c \in UNION {{child.column[i] : i \in DOMAIN child.column} :
                       child \in {options.select[2].unionAll[j] :
                                    j \in DOMAIN options.select[2].unionAll}} : TRUE}}
\* the rows of one child: per element, the base cells, the columns of the other
\* children null, and the child's own cells
RECURSIVE ChildRows(_, _, _, _)
ChildRows(node, options, child, k) ==
    LET elements == EvaluateFhirPath(node, child.forEach) IN
      IF k > Len(elements) THEN <<>>
      ELSE <<Spread(Spread(BaseCells(node, options).row,
                           [name \in UnionNames(options) |-> Null]),
                    ProcessColumns(elements[k], child.column,
                                   ElementContext(child.forEach, elements[k])).row)>>
           \o ChildRows(node, options, child, k + 1)
RECURSIVE UnionRows(_, _, _)
UnionRows(node, options, j) ==
    IF j > Len(options.select[2].unionAll) THEN <<>>
    ELSE ChildRows(node, options, options.select[2].unionAll[j], 1)
         \o UnionRows(node, options, j + 1)

\* C16: for a view of base columns plus a unionAll of forEach children and an
\* admitted resource, processNdjson returns the rows of the first child followed by
\* the rows of the second, a column of the other child being null in each row.
C16_UnionAllConcatenates ==
    (ResolvedAdmitted /\ OneUnionAll(nd.options)
        /\ UnionRows(nd.lines[1].node, nd.options, 1) # <<>>) =>
    nd.result = UnionRows(nd.lines[1].node, nd.options, 1)

\* the column names a view declares
DeclaredNames(options) ==
    {ExtractSelects(options.select, <<>>).columns[i].name :
        i \in DOMAIN ExtractSelects(options.select, <<>>).columns}

\* C17: every row processNdjson returns for an admitted resource has exactly the
\* columns the view declares as its keys.
C17_RowKeysAreDeclared ==
    ResolvedAdmitted =>
    \A k \in DOMAIN nd.result : DOMAIN nd.result[k] = DeclaredNames(nd.options)

\* C18: every row processNdjson collects or returns holds a value that is not null.
C18_NoAllNullRow ==
    /\ \A k \in DOMAIN nd.rows : \E n \in DOMAIN nd.rows[k] : nd.rows[k][n] # Null
    /\ \A k \in DOMAIN nd.result : \E n \in DOMAIN nd.result[k] : nd.result[k][n] # Null

\* The view's resource-key column is a top-level getResourceKey() column
KeyedView(options) ==
    /\ options.select # <<>>
    /\ options.select[1].forEach = "" /\ options.select[1].forEachOrNull = ""
    /\ \E i \in DOMAIN options.select[1].column :
          options.select[1].column[i] = Column("getResourceKey()", "patient_id")

\* C19: for a view whose patient_id column is a top-level getResourceKey() column,
\* every row returned for an admitted resource R that has an id holds R.id in
\* patient_id, and all the rows of one resource agree on patient_id.
C19_ResourceKeyCarried ==
    (ResolvedAdmitted /\ KeyedView(nd.options)) =>
    /\ nd.lines[1].node.id # <<>> =>
          \A k \in DOMAIN nd.result :
              /\ "patient_id" \in DOMAIN nd.result[k]
              /\ nd.result[k].patient_id = nd.lines[1].node.id[1]
    /\ \A k, l \in DOMAIN nd.result :
          /\ "patient_id" \in DOMAIN nd.result[k] <=> "patient_id" \in DOMAIN nd.result[l]
          /\ "patient_id" \in DOMAIN nd.result[k] =>
                nd.result[k].patient_id = nd.result[l].patient_id

\* The file read was one line holding a resource of the view's type
ResolvedResource ==
    /\ nd.pc = "resolved" /\ Len(nd.lines) = 1 /\ nd.lines[1].kind = "object"
    /\ nd.lines[1].node.resourceType = <<nd.options.resource>>
\* The clause names a field of the resource whose first value is the boolean true
\* (a path the evaluator rejects names no field)
HeadIsTrue(node, clause) ==
    /\ clause.path \in DOMAIN node
    /\ node[clause.path] # <<>> /\ node[clause.path][1] = "true"
AllClausesTrue(node, options) ==
    \A i \in DOMAIN options.whereClauses : HeadIsTrue(node, options.whereClauses[i])

\* C20: a resource of the view's type is admitted (counted as parsed, its rows
\* returned) exactly when every where clause yields a list whose head is true;
\* otherwise it gives no row and is counted neither as parsed nor as invalid.
C20_WhereAdmission ==
    ResolvedResource =>
    IF AllClausesTrue(nd.lines[1].node, nd.options)
    THEN /\ nd.parsedRecords = 1 /\ nd.invalidRecords = 0
         /\ nd.result = ProcessResource(nd.lines[1].node, nd.options).rows
    ELSE /\ nd.parsedRecords = 0 /\ nd.invalidRecords = 0
         /\ nd.result = <<>>
\* a resource with a gender is filtered out by the clause "gender" (head not true)
C20_Witness ==
    /\ ResolvedResource
    /\ nd.options.whereClauses = <<[path |-> "gender"]>>
    /\ nd.lines[1].node.gender # <<>>
    /\ nd.parsedRecords = 0 /\ nd.result = <<>> /\ nd.totalRecords = 1

\* A parseViewDefinition call has ended
Parsed == vp.pc \in {"returned", "threw"}
\* The names of the view definitions that do not match ^[A-Za-z][A-Za-z0-9_]*$
RejectedNames == {"1st", "my-col", "", "_x"}
\* Some column anywhere in the tree (column, nested select, unionAll) has such a name
RECURSIVE AnyRejectedName(_)
AnyRejectedName(selects) ==
    \E i \in DOMAIN selects :
        \/ \E k \in DOMAIN selects[i].column : selects[i].column[k].name \in RejectedNames
        \/ AnyRejectedName(selects[i].select)
        \/ AnyRejectedName(selects[i].unionAll)
MissingFields(viewDefinition) ==
    {f \in {"name", "status", "resource"} : viewDefinition[f] = ""}
        \cup (IF viewDefinition.select.kind = "absent" THEN {"select"} ELSE {})

\* C21: parseViewDefinition throws "Missing required field" naming a missing field
\* when one of name, status, resource, select is absent, throws when select is not a
\* non-empty array, throws "Invalid column name" when a column name anywhere in the
\* select tree does not match the pattern, and returns a complete plan otherwise.
C21_PlanOrThrow ==
    Parsed =>
    LET viewDefinition == vp.viewDefinition IN
      IF MissingFields(viewDefinition) # {}
      THEN /\ vp.pc = "threw" /\ vp.error.kind = "missing"
           /\ vp.error.detail \in MissingFields(viewDefinition)
      ELSE IF viewDefinition.select.kind # "array" \/ viewDefinition.select.items = <<>>
           THEN vp.pc = "threw"
           ELSE IF AnyRejectedName(viewDefinition.select.items)
                THEN vp.pc = "threw" /\ vp.error.kind = "columnName"
                ELSE /\ vp.pc = "returned"
                     /\ DOMAIN vp.plan = {"metadata", "constants", "columns", "nestedSelects",
                                          "whereClauses", "resource", "select"}

\* the plan column of a descriptor of the node at a path
ExpectedColumn(col, selectPath) ==
    [path |-> col.path, name |-> col.name,
     type |-> IF "type" \in DOMAIN col THEN col.type ELSE "string",
     description |-> "", collection |-> col.collection, tags |-> <<>>,
     selectPath |-> selectPath]
\* the descriptors of a tree in depth-first order of declaration, each with the
\* path of its node; nested = TRUE goes into nested select nodes as well
RECURSIVE Declared(_, _, _)
Declared(selects, parentPath, nested) ==
    LET f[i \in 0..Len(selects)] ==
          IF i = 0 THEN <<>>
          ELSE LET node == selects[i]
                   here == parentPath \o <<IndexString[i]>> IN
                 f[i - 1]
                   \o [k \in DOMAIN node.column |-> ExpectedColumn(node.column[k], here)]
                   \o (IF nested THEN Declared(node.select, here, nested) ELSE <<>>)
                   \o Declared(node.unionAll, here \o <<"union">>, nested)
    IN f[Len(selects)]

CreateTableOnExisting == ct.kind = "createTable" /\ tableCreated
\* no step taken while the table exists changes the table, its columns or the
\* sequence, or brings createTable to one of its CREATE statements
C23_NoCreateStep ==
    CreateTableOnExisting =>
    /\ tableCreated' /\ tableColumns' = tableColumns
    /\ sequenceCreated' = sequenceCreated
    /\ ct'.kind = "createTable" => ct'.pc \notin {"createSequence", "createTable"}
\* a createTable call on the existing table throws only for columns that are not an
\* array, for want of a connection, or on a failed query
C23_Succeeds ==
    (CreateTableOnExisting /\ ct.pc = "thrown") =>
    (~ct.columnsOk \/ hist.noconn \/ hist.fault)

\* C23: when the table exists, createTable issues no CREATE SEQUENCE and no CREATE
\* TABLE and returns whatever list of columns it is given: the table, its columns
\* and the sequence are after the call what they were before it.
C23_CreateTableIdempotent == [][C23_NoCreateStep]_vars /\ []C23_Succeeds
\* a second createTable, with other columns than the table's, has returned
C23_Witness ==
    /\ CreateTableOnExisting /\ ct.pc = "returned" /\ ct.exists
    /\ ct.columns # tableColumns /\ hist.calls >= 2

\* the chunk (counted from 0) of the row at position t
ChunkIndex(t) == (t - 1) \div cfg.batchSize
\* the number of chunks of n rows: Math.ceil(n / batchSize)
ChunkCount(n) == (n + cfg.batchSize - 1) \div cfg.batchSize

\* C24: upsertData cuts the rows into consecutive chunks of batchSize and takes the
\* chunks in order: a task of a chunk is queued or started only when every task of
\* the chunks before it has finished, each row is queued once, and a call that
\* returns has gone through ceil(|rows| / batchSize) chunks.
C24_ChunksInOrder ==
    /\ \A t \in DOMAIN tasks :
          tasks[t].state # "unborn" =>
            /\ up.pc # "schema" /\ ChunkIndex(t) * cfg.batchSize <= up.i
            /\ \A s \in DOMAIN tasks :
                  ChunkIndex(s) < ChunkIndex(t) => tasks[s].state = "fulfilled"
    /\ \A j, k \in DOMAIN limitQueue : limitQueue[j] = limitQueue[k] => j = k
    /\ (up.pc = "returned" /\ up.rows # <<>>) =>
          /\ \A t \in DOMAIN tasks : tasks[t].state = "fulfilled"
          /\ up.i = (ChunkCount(Len(up.rows)) - 1) * cfg.batchSize
\* the third row, alone in the second chunk, is being inserted after the two rows of
\* the first chunk were inserted
C24_Witness ==
    /\ up.pc = "chunk" /\ Len(up.rows) = 3 /\ up.i = cfg.batchSize
    /\ tasks[3].state = "inserting"
    /\ tasks[1].state = "fulfilled" /\ tasks[2].state = "fulfilled"

\* every column of the view (those given as columns and those of every select)
\* evaluates to null on the resource and on each of its forEach elements
AllNull(node, options) ==
    /\ ProcessColumns(node, options.columns, NoContext).isNull
    /\ \A i \in DOMAIN options.select :
          IF options.select[i].forEach = ""
          THEN ProcessColumns(node, options.select[i].column, NoContext).isNull
          ELSE LET elements == EvaluateFhirPath(node, options.select[i].forEach) IN
                 \A k \in DOMAIN elements :
                     ProcessColumns(elements[k], options.select[i].column,
                                    ElementContext(options.select[i].forEach,
                                                   elements[k])).isNull
\* The file read held admitted resources only, one of them with all columns null
AllNullRead ==
    /\ nd.pc = "resolved"
    /\ \A i \in DOMAIN nd.lines : Admitted(nd.lines[i], nd.options)
    /\ \E i \in DOMAIN nd.lines : AllNull(nd.lines[i].node, nd.options)

\* C25: an admitted resource whose columns all evaluate to null gives no row and is
\* no error: in a file of admitted resources invalidRecords stays 0, every
\* resource is counted as parsed, and the rows are those of the other resources.
C25_AllNullIsNoError ==
    AllNullRead =>
    /\ nd.invalidRecords = 0
    /\ nd.parsedRecords = Len(nd.lines)
    /\ nd.result = GoodRows(nd.lines, nd.options)

\* the rows of the resource of line t, in the order of its forEach elements (none
\* for the resolving task, for a line that is not admitted and for a failed one)
Block(t) ==
    IF t # 0 /\ Admitted(nd.lines[t], nd.options) /\ ~BadLine(nd.lines[t], nd.options)
    THEN ProcessResource(nd.lines[t].node, nd.options).rows ELSE <<>>
\* the blocks of the tasks started so far, in the order of their start
Blocks ==
    LET f[k \in 0..Len(nd.started)] ==
          IF k = 0 THEN <<>> ELSE f[k - 1] \o Block(nd.started[k])
    IN f[Len(nd.started)]

\* C26: whatever the number of materializations in flight, the rows collected are
\* the blocks of the resources one after the other, each block being the rows of
\* one resource in the order of its forEach elements: the rows of two resources
\* are never interleaved.
C26_RowsContiguous == nd.rows = Blocks
\* two line tasks hold a limiter slot and the rows of a resource with two rows
\* follow the row of another resource
C26_Witness ==
    /\ nd.activeCount = 2 /\ Len(nd.started) = 2 /\ Len(nd.rows) = 3
    /\ Len(Block(nd.started[1])) = 1 /\ Len(Block(nd.started[2])) = 2
    /\ \A k \in 1..3 : "patient_id" \in DOMAIN nd.rows[k]
    /\ nd.rows[1].patient_id = "p5" /\ nd.rows[2].patient_id = "p1"
    /\ nd.rows[3].patient_id = "p1"

(* ------------------------ C27: limiter within pool -------------------- *)
\* the row-insert tasks that hold a connection
Holding == {t \in DOMAIN tasks : tasks[t].connection # 0}

\* concurrencyLimit <= connectionPoolSize and no outside caller holds a connection
\* while upsertData runs
LimiterWithinPool ==
    /\ up.pc \in {"chunk", "returned", "thrown"}
    /\ cfg.concurrencyLimit <= cfg.connectionPoolSize
    /\ ext = {}

\* C27: when the limiter capacity is at most the pool size and no other caller
\* holds a connection, no row-insert task of upsertData finds the pool empty, and
\* the tasks never hold more connections than the limiter capacity.
C27_NoTaskFailsToAcquire ==
    LimiterWithinPool =>
        /\ \A t \in DOMAIN tasks : tasks[t].state # "noconn"
        /\ Cardinality(Holding) <= LimitCapacity

(* ------------------------ C28: every row counted once ----------------- *)
\* the rows of the batch that carry their resource key, and those that do not
Keyed(rows) == {t \in DOMAIN rows : ~MissingKey(rows[t])}
Keyless(rows) == {t \in DOMAIN rows : MissingKey(rows[t])}

AllLinesThenResolve(n) == [k \in 1..(n + 1) |-> IF k <= n THEN k ELSE 0]

\* The body of a line task has no await, so a task that has started has finished
\* its materialization: at resolution no task is queued, the task of every line
\* has run before the resolving task, totalRecords is the number of lines and the
\* list resolved holds the rows of every admitted resource, in line order.
C29_AtResolution ==
    nd.pc = "resolved" =>
        /\ nd.limitQueue = <<>>
        /\ nd.started = AllLinesThenResolve(Len(nd.lines))
        /\ nd.read = Len(nd.lines)
        /\ nd.totalRecords = Len(nd.lines)
        /\ nd.result = GoodRows(nd.lines, nd.options)
        /\ nd.result = Blocks
        /\ nd.lines = <<>> => (nd.result = <<>> /\ nd.invalidRecords = 0)

\* C29: unless the stream reports a read error, a call of processNdjson on a finite
\* file eventually resolves, and it resolves only after the task of every line
\* read has finished, with totalRecords the number of lines and the rows of every
\* admitted resource in the list (an empty file: no rows, no invalid records).
C29_ResolvesAfterAllLines ==
    /\ []C29_AtResolution
    /\ [](nd.pc # "rejected") => ((nd.pc = "reading") ~> (nd.pc = "resolved"))

C29_Witness ==
    /\ nd.pc = "resolved"
    /\ Len(nd.lines) = MaxFairLines
    /\ nd.totalRecords = MaxFairLines
    /\ \A i \in DOMAIN nd.lines : Admitted(nd.lines[i], nd.options)
    /\ Len(nd.result) >= 2
    /\ nd.activeCount = 2

\* the empty file
C29_EmptyFileWitness ==
    nd.pc = "resolved" /\ nd.lines = <<>> /\ nd.result = <<>> /\ nd.totalRecords = 0

(* ------------------------ C30: createTable needs two connections ------ *)
\* createTable, called with a column array while exactly one connection was free,
\* holds that connection and is about to call tableExists
OneFreeAtCall ==
    /\ ct.kind = "createTable" /\ ct.pc = "validate" /\ ct.columnsOk
    /\ connectionPool = <<>>

\* createTable holds a connection of its own, before tableExists and while
\* tableExists runs its query on a second one
C30_TwoCheckedOut ==
    /\ (ct.kind = "createTable" /\ ct.pc \in {"validate", "query"}) =>
          /\ ct.connection # 0
          /\ \A k \in DOMAIN connectionPool : connectionPool[k] # ct.connection
    /\ (ct.kind = "createTable" /\ ct.pc = "query") =>
          /\ ct.teConnection # 0
          /\ ct.connection # ct.teConnection
          /\ \A k \in DOMAIN connectionPool : connectionPool[k] # ct.teConnection

\* with one connection free, tableExists finds the pool empty: the call throws,
\* creates neither the sequence nor the table, and the one connection is back
C30_ThrowStep ==
    OneFreeAtCall =>
        /\ ct'.pc = "thrown" /\ hist'.noconn /\ ~hist'.fault
        /\ ct'.connection = 0 /\ ct'.teConnection = 0
        /\ connectionPool' = <<ct.connection>>
        /\ tableCreated' = tableCreated /\ sequenceCreated' = sequenceCreated
        /\ tableColumns' = tableColumns /\ table' = table

\* C30: createTable keeps its connection while tableExists takes a second one; with
\* exactly one connection free it throws 'No connections available in the pool',
\* creates neither the sequence nor the table, and leaves the pool at its size.
C30_NeedsTwoConnections == [][C30_ThrowStep]_vars /\ []C30_TwoCheckedOut

C30_Witness ==
    /\ ct.kind = "createTable" /\ ct.columnsOk
    /\ ct.pc = "thrown" /\ hist.noconn
    /\ cfg.connectionPoolSize = 2 /\ Cardinality(ext) = 1
    /\ Len(connectionPool) = 1
    /\ ~tableCreated /\ ~sequenceCreated
====
